---- MODULE Spec2Model ----
(***************************************************************************)
(* Tally webhook processor (src/main.py): the webhook handler, the two     *)
(* background generation tasks it enqueues per accepted submission, and    *)
(* the table form_AI_DB they share.                                        *)
(*                                                                         *)
(* Text is modelled as a sequence of string tokens; concatenation is \o.   *)
(***************************************************************************)
EXTENDS Integers, Sequences, FiniteSets, TLC

\* ------------------------------------------------------------------ bounds

\* Number of webhook deliveries (handler invocations) in one behaviour.
MaxDeliveries == 2

\* Longest field list a function called on its own is given.
MaxFields == 3

\* ------------------------------------------------------- program constants

STATUS_PROCESSING == "processing"
STATUS_SUCCESS == "success"
STATUS_ERROR == "error"
GEMINI_ERROR_MARKER == "ERROR_PROCESSING_GEMINI"

\* Python's None.
None == "<None>"

\* The label detect_form_type compares against.
SECTOR_LABEL == "¿De qué sector es tu empresa o grupo?"

\* ----------------------------------------------------------- input domain

Deliveries == 1..MaxDeliveries

\* The submission ids Tally sends, in the order of their first delivery.
SubmissionIdSeq == <<"sub-1", "sub-2">>
SubmissionIds == {SubmissionIdSeq[k] : k \in 1..Len(SubmissionIdSeq)}

\* What a provider call can come back with: response.text, or the message of
\* the exception it raises.
ProviderTexts == {"texto generado"}
ProviderErrors == {"503 transport error"}

\* Scalars keep their Python type: str(v) of either is v.v, but only a "str"
\* is accepted by str.join.
StrV(s) == [t |-> "str", v |-> s]
IntV(s) == [t |-> "int", v |-> s]
NoneValue == [t |-> "none"]
List(items) == [t |-> "list", v |-> items]

Option(id, text) == [id |-> id, text |-> text]

TallyField(key, label, value, options) ==
    [key |-> key, label |-> label, value |-> value, options |-> options]

\* A padded label, to exercise str.strip.
PADDED_SECTOR_LABEL == " ¿De qué sector es tu empresa o grupo? "

FieldAI == TallyField("question_ai", "¿Quieres elegir la IA?",
                      List(<<StrV("opt_1"), StrV("opt_2")>>),
                      <<Option("opt_1", "Yes")>>)
FieldName == TallyField("question_name", None, NoneValue, <<>>)
FieldSector == TallyField("question_sector", PADDED_SECTOR_LABEL, StrV("Banca"), <<>>)
FieldLevel == TallyField("question_level", "Automation level", IntV("6"), <<>>)
FieldNoLabel == TallyField("question_x", None, StrV("x"), <<>>)
FieldIntList == TallyField("question_n", "Numeros", List(<<IntV("1")>>),
                           <<Option("opt_1", "Yes")>>)
FieldBanking == TallyField("question_s", "Sector", StrV("Banking"), <<>>)

\* payload.data.fields of the deliveries the model sends.
PayloadCFO == <<FieldAI, FieldName, FieldSector>>
PayloadTwoFields == <<FieldBanking, FieldLevel>>
PayloadNullLabel == <<FieldAI, FieldLevel, FieldNoLabel>>
PayloadIntList == <<FieldIntList, FieldName, FieldLevel>>
PayloadEmpty == <<>>

Payloads == {PayloadCFO, PayloadTwoFields, PayloadNullLabel, PayloadIntList,
             PayloadEmpty}

\* ------------------------------------------------------------------ state

VARIABLES
    form_AI_DB,        \* the rows of table form_AI_DB, in insertion order
    request,           \* per delivery: the handler invocation and its response
    background_tasks,  \* per delivery: the tasks added to its BackgroundTasks
    viewer,            \* the query the results viewers ran last
    call               \* a function of main.py called on its own: inputs, result

\* --------------------------------------------------------- pure functions

Returned(v) == [ok |-> TRUE, val |-> v]
Raised(e) == [ok |-> FALSE, exc |-> e]

\* str.strip on the labels of the input domain.
Strip(s) == IF s = PADDED_SECTOR_LABEL THEN SECTOR_LABEL ELSE s

\* str(value) for a scalar or None.
PyStr(value) == IF value.t = "none" THEN "None" ELSE value.v

\* repr(value) of a list element, as str(list) prints it.
PyRepr(value) ==
    IF value.t = "str" THEN <<"'", value.v, "'">> ELSE <<PyStr(value)>>

RECURSIVE JoinTokens(_, _)
\* sep.join(parts), parts a sequence of token sequences.
JoinTokens(sep, parts) ==
    IF parts = <<>> THEN <<>>
    ELSE IF Len(parts) = 1 THEN Head(parts)
    ELSE Head(parts) \o <<sep>> \o JoinTokens(sep, Tail(parts))

\* str(value) for any field value.
PyStrValue(value) ==
    IF value.t = "list"
    THEN <<"[">> \o JoinTokens(", ", [i \in 1..Len(value.v) |-> PyRepr(value.v[i])])
         \o <<"]">>
    ELSE <<PyStr(value)>>

\* id_to_text.get(v, v): the option's text as a str, or v itself.
IdToTextGet(options, v) ==
    IF v.t = "str" /\ \E i \in 1..Len(options) : options[i].id = v.v
    THEN LET i == CHOOSE j \in 1..Len(options) :
                      /\ options[j].id = v.v
                      /\ \A k \in (j+1)..Len(options) : options[k].id # v.v
         IN StrV(options[i].text)
    ELSE v

\* One "- label: value" line of summarize_payload, or the TypeError of str.join.
SummaryLine(field) ==
    LET label == IF field.label = None \/ field.label = "" THEN field.key
                 ELSE field.label
        value == field.value
    IN IF value.t = "list" /\ field.options # <<>>
       THEN LET value_texts == [i \in 1..Len(value.v) |->
                                    IdToTextGet(field.options, value.v[i])]
            IN IF \E i \in 1..Len(value_texts) : value_texts[i].t # "str"
               THEN Raised("TypeError")
               ELSE Returned(<<"- ", label, ": ">> \o
                        JoinTokens(", ", [i \in 1..Len(value_texts) |->
                                              <<value_texts[i].v>>]))
       ELSE Returned(<<"- ", label, ": ">> \o PyStrValue(value))

summarize_payload(fields) ==
    LET lines == [i \in 1..Len(fields) |-> SummaryLine(fields[i])]
    IN IF \E i \in 1..Len(fields) : ~lines[i].ok
       THEN Raised("TypeError")
       ELSE Returned(JoinTokens("\n",
                <<<<"Respuestas:">>>> \o [i \in 1..Len(fields) |-> lines[i].val]))

detect_form_type(fields) ==
    IF fields # <<>>
    THEN IF Len(fields) < 3 THEN Raised("IndexError")
         ELSE LET first_label == fields[3].label
              IN IF first_label = None THEN Raised("AttributeError")
                 ELSE IF Strip(first_label) = SECTOR_LABEL
                      THEN Returned("CFO_Form")
                      ELSE Returned("Unknown")
    ELSE Returned("Unknown")

\* The template generate_prompt starts from, by mode.
PromptPreamble(mode) ==
    IF mode = "CFO_Form" THEN <<"# Prompt: Analizar Formulario de CFO ...">>
    ELSE IF mode = "consulting"
         THEN <<"# Prompt para Gemini: Generar Briefing Interno ...">>
         ELSE <<"Analiza la siguiente respuesta de encuesta de un CFO\n",
                "Proporciona un resumen o conclusión en formato markdown:\n\n">>

\* PromptLine with str() applied to a null label and a null value.
PromptLineStr(field) ==
    LET label_str == IF field.label = None THEN "None" ELSE Strip(field.label)
        value == field.value
        value_str ==
            IF value.t = "list"
            THEN <<"\"">> \o JoinTokens(",", [i \in 1..Len(value.v) |->
                                                  <<PyStr(value.v[i])>>]) \o <<"\"">>
            ELSE <<PyStr(value)>>
    IN <<"Pregunta: ", label_str, " - Respuesta: ">> \o value_str

\* The line generate_prompt appends for one field (the same in the three modes).
PromptLine(field) ==
    LET label_str == IF field.label = None THEN "null" ELSE Strip(field.label)
        value == field.value
        value_str ==
            IF value.t = "list"
            THEN <<"\"">> \o JoinTokens(",", [i \in 1..Len(value.v) |->
                                                  <<PyStr(value.v[i])>>]) \o <<"\"">>
            ELSE IF value.t = "none" THEN <<"null">>
            ELSE <<PyStr(value)>>
    IN <<"Pregunta: ", label_str, " - Respuesta: ">> \o value_str

RECURSIVE Concat(_)
\* "".join(parts)
Concat(parts) == IF parts = <<>> THEN <<>> ELSE Head(parts) \o Concat(Tail(parts))

\* generate_prompt with the field lines in reverse order.
generate_prompt_reversed(fields, mode) ==
    PromptPreamble(mode)
      \o Concat([i \in 1..Len(fields) |-> PromptLine(fields[Len(fields) + 1 - i])])

\* generate_prompt with a note added once the table holds other submissions.
generate_prompt_with_store(fields, mode) ==
    PromptPreamble(mode)
      \o Concat([i \in 1..Len(fields) |-> PromptLine(fields[i])])
      \o IF form_AI_DB = <<>> THEN <<>> ELSE <<"Envíos anteriores: ", "1">>

generate_prompt(fields, mode) ==
    PromptPreamble(mode) \o Concat([i \in 1..Len(fields) |-> PromptLine(fields[i])])

\* f"Error interno: {e}" for the exceptions of the input domain.
ErrorInterno(e) ==
    IF e = "503 transport error" THEN "Error interno: 503 transport error"
    ELSE IF e = GEMINI_ERROR_MARKER THEN "Error interno: ERROR_PROCESSING_GEMINI"
    ELSE "Error interno: "

\* Messages an exception caught by generate_gemini_response can carry: the
\* provider's, the marker's own text, or none.
ExceptionMessages == ProviderErrors \cup {GEMINI_ERROR_MARKER, ""}

vars == <<form_AI_DB, request, background_tasks, viewer, call>>

NoResponse == [code |-> 0, message |-> <<>>]
Ok(message) == [code |-> 200, message |-> message]
InternalServerError == [code |-> 500, message |-> <<"Internal server error">>]

ProcessingStarted == Ok(<<"Processing started">>)
AlreadyProcessing == Ok(<<"Already processing">>)
AlreadyProcessed(status) == Ok(<<"Already processed with status: ", status>>)

\* ------------------------------------------------------------------ store

\* select("*").eq("submission_id", submission_id): data.data, a list of rows.
Select(db, submission_id) ==
    SelectSeq(db, LAMBDA row : row.submission_id = submission_id)

\* Insert on a table without a key on submission_id.
InsertNoKey(db, row) == Returned(Append(db, row))

\* insert(row): submission_id is the table's primary key, so a second row with
\* the same id is refused.
Insert(db, row) ==
    IF \E i \in 1..Len(db) : db[i].submission_id = row.submission_id
    THEN Raised("duplicate key")
    ELSE Returned(Append(db, row))

\* Update without the eq filter: the columns are replaced in every row.
UpdateUnfiltered(db, submission_id, changes) ==
    [i \in 1..Len(db) |->
        [col \in DOMAIN db[i] |->
            IF col \in DOMAIN changes THEN changes[col] ELSE db[i][col]]]

\* update(changes).eq("submission_id", submission_id): the named columns of
\* the matching rows are replaced, the other columns are kept.
Update(db, submission_id, changes) ==
    [i \in 1..Len(db) |->
        IF db[i].submission_id = submission_id
        THEN [col \in DOMAIN db[i] |->
                 IF col \in DOMAIN changes THEN changes[col] ELSE db[i][col]]
        ELSE db[i]]

\* The results viewers: the status and the result column they read from the
\* first row found (result_client in the client viewer, result_consulting in
\* the consulting viewer), None when there is no row.
ViewerQuery(db, submission_id, column) ==
    LET data == Select(db, submission_id)
    IN [status |-> IF data # <<>> THEN data[1].status ELSE None,
        result_text |-> IF data # <<>> THEN data[1][column] ELSE None]

\* data.data['status']: data.data is a list, so a str subscript raises.
DataStatus(data) == Raised("TypeError")

\* No results page has been opened.
NoQuery == [submission_id |-> None, column |-> None]

NoResult == [ok |-> FALSE, exc |-> None]

\* The environment main.py is loaded in when the service runs.
ServingEnv == [GEMINI_API_KEY |-> "key", DEEPSEEK_API_KEY |-> "key",
               SUPABASE_URL |-> "url", SUPABASE_KEY |-> "key", connects |-> TRUE]

\* No function is called on its own.
NoCall == [fn |-> None, pc |-> "ready", env |-> ServingEnv, fields |-> <<>>,
           mode |-> None, result |-> NoResult, again |-> NoResult]

\* --------------------------------------------------------------- handler

Init ==
    /\ form_AI_DB = <<>>
    /\ request = [d \in Deliveries |->
                     [pc |-> "pending", submission_id |-> None, fields |-> <<>>,
                      response |-> NoResponse, after |-> {}, seen |-> None,
                      insert |-> "none"]]
    /\ background_tasks = [d \in Deliveries |-> <<>>]
    /\ viewer = NoQuery
    /\ call = NoCall

\* The deliveries whose handler has returned.
Responded == {d \in Deliveries : request[d].pc = "responded"}

\* The earlier deliveries of submission_id whose handler had returned.
Predecessors(submission_id) ==
    {e \in Responded : request[e].submission_id = submission_id}

\* The handler returns `response`; its locals are gone. `after`, `seen` and
\* `insert` record what the call did: the calls that had returned when it
\* began, the status its lookup found, and how its insert ended ("none" when
\* it executed no insert, "ok", or the error the store raised).
Respond(d, submission_id, response, seen, insert) ==
    request' = [request EXCEPT ![d] =
                   [pc |-> "responded", submission_id |-> submission_id,
                    fields |-> <<>>, response |-> response,
                    after |-> IF request[d].pc = "pending"
                              THEN Predecessors(submission_id)
                              ELSE request[d].after,
                    seen |-> seen,
                    insert |-> insert]]

\* NewRow without the status column.
NewRowUnset(submission_id, response, form_type) ==
    [submission_id |-> submission_id,
     status |-> None,
     result_client |-> None,
     result_consulting |-> None,
     user_responses |-> response,
     form_type |-> form_type]

\* The row the handler inserts.
NewRow(submission_id, response, form_type) ==
    [submission_id |-> submission_id,
     status |-> STATUS_PROCESSING,
     result_client |-> None,
     result_consulting |-> None,
     user_responses |-> response,
     form_type |-> form_type]

Task(submission_id, prompt, prompt_type) ==
    [submission_id |-> submission_id, prompt |-> prompt, prompt_type |-> prompt_type,
     pc |-> "queued", calls |-> 0, updates |-> 0, update_failed |-> FALSE,
     result |-> None]

\* AddedTasks without the consulting task.
AddedTasksClientOnly(submission_id, fields, form_type) ==
    << Task(submission_id, generate_prompt(fields, form_type), form_type) >>

\* The tasks the handler adds, in the order it adds them.
AddedTasks(submission_id, fields, form_type) ==
    << Task(submission_id, generate_prompt(fields, form_type), form_type),
       Task(submission_id, generate_prompt(fields, "consulting"), "consulting") >>

\* The ids a new delivery can carry: one already delivered, or the next one.
DeliverableIds ==
    LET used == {request[e].submission_id : e \in {x \in Deliveries : request[x].pc # "pending"}}
    IN {SubmissionIdSeq[k] : k \in {j \in 1..Len(SubmissionIdSeq) :
                                       \A i \in 1..(j - 1) : SubmissionIdSeq[i] \in used}}

\* WebhookSelect with the duplicate branch processing the delivery again
\* instead of returning.
WebhookSelectReprocess(d) ==
    /\ request[d].pc = "pending"
    /\ \A e \in Deliveries : e < d => request[e].pc # "pending"
    /\ \E submission_id \in DeliverableIds, fields \in Payloads :
          LET data == Select(form_AI_DB, submission_id)
          IN IF data # <<>>
             THEN /\ Respond(d, submission_id, ProcessingStarted, data[1].status, "none")
                  /\ background_tasks' =
                        [background_tasks EXCEPT ![d] =
                            AddedTasks(submission_id, fields, data[1].form_type)]
             ELSE /\ request' = [request EXCEPT ![d] =
                                    [@ EXCEPT !.pc = "checked",
                                              !.submission_id = submission_id,
                                              !.fields = fields,
                                              !.after = Predecessors(submission_id)]]
                  /\ UNCHANGED background_tasks
    /\ UNCHANGED form_AI_DB
    /\ UNCHANGED <<viewer, call>>

\* WebhookSelect with a duplicate delivery putting the row it found back into
\* processing before it answers.
WebhookSelectTouch(d) ==
    /\ request[d].pc = "pending"
    /\ \A e \in Deliveries : e < d => request[e].pc # "pending"
    /\ \E submission_id \in DeliverableIds, fields \in Payloads, store_ok \in BOOLEAN :
          LET data == Select(form_AI_DB, submission_id)
          IN IF ~store_ok
             THEN /\ Respond(d, submission_id, InternalServerError, None, "none")
                  /\ UNCHANGED form_AI_DB
             ELSE IF data # <<>>
             THEN /\ Respond(d, submission_id, InternalServerError,
                             data[1].status, "none")
                  /\ form_AI_DB' = Update(form_AI_DB, submission_id,
                                          [status |-> STATUS_PROCESSING])
             ELSE /\ request' = [request EXCEPT ![d] =
                                    [@ EXCEPT !.pc = "checked",
                                              !.submission_id = submission_id,
                                              !.fields = fields,
                                              !.after = Predecessors(submission_id)]]
                  /\ UNCHANGED form_AI_DB
    /\ UNCHANGED background_tasks
    /\ UNCHANGED <<viewer, call>>

\* handle_tally_webhook up to its existence check: a delivery arrives and the
\* handler looks the submission up.
WebhookSelect(d) ==
    /\ request[d].pc = "pending"
    /\ \A e \in Deliveries : e < d => request[e].pc # "pending"
    /\ \E submission_id \in DeliverableIds, fields \in Payloads, store_ok \in BOOLEAN :
          LET data == Select(form_AI_DB, submission_id)
              status == DataStatus(data)
          IN IF ~store_ok
             THEN Respond(d, submission_id, InternalServerError, None, "none")
             ELSE IF data # <<>>
             THEN IF ~status.ok
                  THEN Respond(d, submission_id, InternalServerError,
                               data[1].status, "none")
                  ELSE IF status.val = STATUS_PROCESSING
                  THEN Respond(d, submission_id, AlreadyProcessing,
                               data[1].status, "none")
                  ELSE Respond(d, submission_id, AlreadyProcessed(status.val),
                               data[1].status, "none")
             ELSE request' = [request EXCEPT ![d] =
                                 [@ EXCEPT !.pc = "checked",
                                           !.submission_id = submission_id,
                                           !.fields = fields,
                                           !.after = Predecessors(submission_id)]]
    /\ UNCHANGED <<form_AI_DB, background_tasks>>
    /\ UNCHANGED <<viewer, call>>

\* WebhookInsert with the insert's failure logged instead of propagated.
WebhookInsertSwallow(d) ==
    /\ request[d].pc = "checked"
    /\ \E store_ok \in BOOLEAN :
          LET submission_id == request[d].submission_id
              fields == request[d].fields
              form_type == detect_form_type(fields)
              response == summarize_payload(fields)
              inserted == IF store_ok
                          THEN Insert(form_AI_DB,
                                      NewRow(submission_id, response.val, form_type.val))
                          ELSE Raised("unavailable")
          IN IF form_type.ok /\ response.ok
             THEN /\ form_AI_DB' = IF inserted.ok THEN inserted.val ELSE form_AI_DB
                  /\ background_tasks' =
                        [background_tasks EXCEPT ![d] =
                            AddedTasks(submission_id, fields, form_type.val)]
                  /\ Respond(d, submission_id, ProcessingStarted, None,
                             IF inserted.ok THEN "ok" ELSE inserted.exc)
             ELSE /\ Respond(d, submission_id, InternalServerError, None, "none")
                  /\ UNCHANGED <<form_AI_DB, background_tasks>>
    /\ UNCHANGED <<viewer, call>>

\* WebhookInsert with the tasks added before the row is inserted.
WebhookInsertEnqueueFirst(d) ==
    /\ request[d].pc = "checked"
    /\ \E store_ok \in BOOLEAN :
          LET submission_id == request[d].submission_id
              fields == request[d].fields
              form_type == detect_form_type(fields)
              response == summarize_payload(fields)
              inserted == IF store_ok
                          THEN Insert(form_AI_DB,
                                      NewRow(submission_id, response.val, form_type.val))
                          ELSE Raised("unavailable")
          IN IF form_type.ok /\ response.ok
             THEN /\ background_tasks' =
                        [background_tasks EXCEPT ![d] =
                            AddedTasks(submission_id, fields, form_type.val)]
                  /\ IF inserted.ok
                     THEN /\ form_AI_DB' = inserted.val
                          /\ Respond(d, submission_id, ProcessingStarted, None, "ok")
                     ELSE /\ Respond(d, submission_id, InternalServerError, None,
                                     inserted.exc)
                          /\ UNCHANGED form_AI_DB
             ELSE /\ Respond(d, submission_id, InternalServerError, None, "none")
                  /\ UNCHANGED <<form_AI_DB, background_tasks>>
    /\ UNCHANGED <<viewer, call>>

\* WebhookInsert with the exception handler recording the submission it
\* could not process as a row in status error before it answers.
WebhookInsertMarksFailure(d) ==
    /\ request[d].pc = "checked"
    /\ \E store_ok \in BOOLEAN :
          LET submission_id == request[d].submission_id
              fields == request[d].fields
              form_type == detect_form_type(fields)
              response == summarize_payload(fields)
              inserted == IF store_ok
                          THEN Insert(form_AI_DB,
                                      NewRow(submission_id, response.val, form_type.val))
                          ELSE Raised("unavailable")
              marked == Insert(form_AI_DB,
                               [NewRow(submission_id, None, None)
                                   EXCEPT !.status = STATUS_ERROR])
          IN IF form_type.ok /\ response.ok
             THEN IF inserted.ok
                  THEN /\ form_AI_DB' = inserted.val
                       /\ background_tasks' =
                             [background_tasks EXCEPT ![d] =
                                 AddedTasks(submission_id, fields, form_type.val)]
                       /\ Respond(d, submission_id, ProcessingStarted, None, "ok")
                  ELSE /\ Respond(d, submission_id, InternalServerError, None,
                                  inserted.exc)
                       /\ UNCHANGED <<form_AI_DB, background_tasks>>
             ELSE /\ Respond(d, submission_id, InternalServerError, None, "none")
                  /\ form_AI_DB' = IF marked.ok THEN marked.val ELSE form_AI_DB
                  /\ UNCHANGED background_tasks
    /\ UNCHANGED <<viewer, call>>

\* handle_tally_webhook from the form-type detection to its return: the row is
\* inserted, the two tasks are added and the handler answers.
WebhookInsert(d) ==
    /\ request[d].pc = "checked"
    /\ \E store_ok \in BOOLEAN :
          LET submission_id == request[d].submission_id
              fields == request[d].fields
              form_type == detect_form_type(fields)
              response == summarize_payload(fields)
              inserted == IF store_ok
                          THEN Insert(form_AI_DB,
                                      NewRow(submission_id, response.val, form_type.val))
                          ELSE Raised("unavailable")
          IN IF form_type.ok /\ response.ok
             THEN IF inserted.ok
                  THEN /\ form_AI_DB' = inserted.val
                       /\ background_tasks' =
                             [background_tasks EXCEPT ![d] =
                                 AddedTasks(submission_id, fields, form_type.val)]
                       /\ Respond(d, submission_id, ProcessingStarted, None, "ok")
                  ELSE /\ Respond(d, submission_id, InternalServerError, None,
                                  inserted.exc)
                       /\ UNCHANGED <<form_AI_DB, background_tasks>>
             ELSE /\ Respond(d, submission_id, InternalServerError, None, "none")
                  /\ UNCHANGED <<form_AI_DB, background_tasks>>
    /\ UNCHANGED <<viewer, call>>

\* ------------------------------------------------------- generation task

\* What awaiting model.generate_content_async(prompt) yields: a response with
\* text, a response whose parts join to a text, a response without text, or
\* an exception.
ProviderOutcomes ==
    [kind : {"text", "parts"}, text : ProviderTexts, exc : {None}]
      \cup [kind : {"empty"}, text : {""}, exc : {None}]
      \cup [kind : {"exception"}, text : {""}, exc : ProviderErrors]

\* result_text after the response has been inspected.
ResultText(outcome) ==
    IF outcome.kind \in {"text", "parts"} /\ outcome.text # ""
    THEN outcome.text
    ELSE None

\* TerminalUpdate with each error written to the task's own column only.
TerminalUpdateOwnSlot(submission_id, prompt_type, outcome) ==
    LET value == IF outcome.kind = "exception" THEN ErrorInterno(outcome.exc)
                 ELSE IF ResultText(outcome) # None THEN ResultText(outcome)
                 ELSE GEMINI_ERROR_MARKER
        status == IF outcome.kind # "exception" /\ ResultText(outcome) # None
                  THEN STATUS_SUCCESS ELSE STATUS_ERROR
    IN IF prompt_type = "consulting"
       THEN [submission_id |-> submission_id, status |-> status,
             result_consulting |-> value]
       ELSE [submission_id |-> submission_id, status |-> status,
             result_client |-> value]

\* TerminalUpdate with the empty response only logged.
TerminalUpdateSkipEmpty(submission_id, prompt_type, outcome) ==
    IF outcome.kind = "exception"
    THEN [submission_id |-> submission_id,
          status |-> STATUS_ERROR,
          result_client |-> ErrorInterno(outcome.exc),
          result_consulting |-> ErrorInterno(outcome.exc)]
    ELSE IF ResultText(outcome) # None
    THEN IF prompt_type = "consulting"
         THEN [submission_id |-> submission_id,
               status |-> STATUS_SUCCESS,
               result_consulting |-> ResultText(outcome)]
         ELSE [submission_id |-> submission_id,
               status |-> STATUS_SUCCESS,
               result_client |-> ResultText(outcome)]
    ELSE [submission_id |-> submission_id]

\* TerminalUpdate with the exception path writing the empty-response marker.
TerminalUpdateMarkerOnException(submission_id, prompt_type, outcome) ==
    IF outcome.kind # "exception" /\ ResultText(outcome) # None
    THEN IF prompt_type = "consulting"
         THEN [submission_id |-> submission_id,
               status |-> STATUS_SUCCESS,
               result_consulting |-> ResultText(outcome)]
         ELSE [submission_id |-> submission_id,
               status |-> STATUS_SUCCESS,
               result_client |-> ResultText(outcome)]
    ELSE [submission_id |-> submission_id,
          status |-> STATUS_ERROR,
          result_client |-> GEMINI_ERROR_MARKER,
          result_consulting |-> GEMINI_ERROR_MARKER]

\* TerminalUpdate with the empty response handled as an exception without
\* a message.
TerminalUpdateEmptyAsException(submission_id, prompt_type, outcome) ==
    IF outcome.kind # "exception" /\ ResultText(outcome) # None
    THEN IF prompt_type = "consulting"
         THEN [submission_id |-> submission_id,
               status |-> STATUS_SUCCESS,
               result_consulting |-> ResultText(outcome)]
         ELSE [submission_id |-> submission_id,
               status |-> STATUS_SUCCESS,
               result_client |-> ResultText(outcome)]
    ELSE [submission_id |-> submission_id,
          status |-> STATUS_ERROR,
          result_client |-> ErrorInterno(outcome.exc),
          result_consulting |-> ErrorInterno(outcome.exc)]

\* TerminalUpdate with the success write replacing both result columns.
TerminalUpdateReplaceSlots(submission_id, prompt_type, outcome) ==
    IF outcome.kind = "exception"
    THEN [submission_id |-> submission_id,
          status |-> STATUS_ERROR,
          result_client |-> ErrorInterno(outcome.exc),
          result_consulting |-> ErrorInterno(outcome.exc)]
    ELSE IF ResultText(outcome) # None
    THEN IF prompt_type = "consulting"
         THEN [submission_id |-> submission_id,
               status |-> STATUS_SUCCESS,
               result_client |-> None,
               result_consulting |-> ResultText(outcome)]
         ELSE [submission_id |-> submission_id,
               status |-> STATUS_SUCCESS,
               result_client |-> ResultText(outcome),
               result_consulting |-> None]
    ELSE [submission_id |-> submission_id,
          status |-> STATUS_ERROR,
          result_client |-> GEMINI_ERROR_MARKER,
          result_consulting |-> GEMINI_ERROR_MARKER]

\* TerminalUpdate with a success write leaving the status of a row that is
\* already in error as it is.
TerminalUpdateStickyError(submission_id, prompt_type, outcome) ==
    LET rows == Select(form_AI_DB, submission_id)
        status == IF rows # <<>> /\ rows[1].status = STATUS_ERROR
                  THEN STATUS_ERROR ELSE STATUS_SUCCESS
    IN IF outcome.kind = "exception"
       THEN [submission_id |-> submission_id,
             status |-> STATUS_ERROR,
             result_client |-> ErrorInterno(outcome.exc),
             result_consulting |-> ErrorInterno(outcome.exc)]
       ELSE IF ResultText(outcome) # None
       THEN IF prompt_type = "consulting"
            THEN [submission_id |-> submission_id,
                  status |-> status,
                  result_consulting |-> ResultText(outcome)]
            ELSE [submission_id |-> submission_id,
                  status |-> status,
                  result_client |-> ResultText(outcome)]
       ELSE [submission_id |-> submission_id,
             status |-> STATUS_ERROR,
             result_client |-> GEMINI_ERROR_MARKER,
             result_consulting |-> GEMINI_ERROR_MARKER]

\* TerminalUpdate with the success write storing the text only.
TerminalUpdateSlotOnly(submission_id, prompt_type, outcome) ==
    IF outcome.kind = "exception"
    THEN [submission_id |-> submission_id,
          status |-> STATUS_ERROR,
          result_client |-> ErrorInterno(outcome.exc),
          result_consulting |-> ErrorInterno(outcome.exc)]
    ELSE IF ResultText(outcome) # None
    THEN IF prompt_type = "consulting"
         THEN [submission_id |-> submission_id,
               result_consulting |-> ResultText(outcome)]
         ELSE [submission_id |-> submission_id,
               result_client |-> ResultText(outcome)]
    ELSE [submission_id |-> submission_id,
          status |-> STATUS_ERROR,
          result_client |-> GEMINI_ERROR_MARKER,
          result_consulting |-> GEMINI_ERROR_MARKER]

\* TerminalUpdate with each write also storing the task's prompt type in
\* form_type.
TerminalUpdateRetypes(submission_id, prompt_type, outcome) ==
    IF outcome.kind = "exception"
    THEN [submission_id |-> submission_id,
          status |-> STATUS_ERROR,
          form_type |-> prompt_type,
          result_client |-> ErrorInterno(outcome.exc),
          result_consulting |-> ErrorInterno(outcome.exc)]
    ELSE IF ResultText(outcome) # None
    THEN IF prompt_type = "consulting"
         THEN [submission_id |-> submission_id,
               status |-> STATUS_SUCCESS,
               form_type |-> prompt_type,
               result_consulting |-> ResultText(outcome)]
         ELSE [submission_id |-> submission_id,
               status |-> STATUS_SUCCESS,
               form_type |-> prompt_type,
               result_client |-> ResultText(outcome)]
    ELSE [submission_id |-> submission_id,
          status |-> STATUS_ERROR,
          form_type |-> prompt_type,
          result_client |-> GEMINI_ERROR_MARKER,
          result_consulting |-> GEMINI_ERROR_MARKER]

\* The columns generate_gemini_response writes for an outcome of the call.
TerminalUpdate(submission_id, prompt_type, outcome) ==
    IF outcome.kind = "exception"
    THEN [submission_id |-> submission_id,
          status |-> STATUS_ERROR,
          result_client |-> ErrorInterno(outcome.exc),
          result_consulting |-> ErrorInterno(outcome.exc)]
    ELSE IF ResultText(outcome) # None
    THEN IF prompt_type = "consulting"
         THEN [submission_id |-> submission_id,
               status |-> STATUS_SUCCESS,
               result_consulting |-> ResultText(outcome)]
         ELSE [submission_id |-> submission_id,
               status |-> STATUS_SUCCESS,
               result_client |-> ResultText(outcome)]
    ELSE [submission_id |-> submission_id,
          status |-> STATUS_ERROR,
          result_client |-> GEMINI_ERROR_MARKER,
          result_consulting |-> GEMINI_ERROR_MARKER]

\* The number of store updates a task attempts for its terminal write.
UpdateAttempts == 1

\* The task of delivery d that runs next: BackgroundTasks runs its tasks one
\* after the other, in the order they were added.
CurrentTask(d) ==
    IF \E i \in 1..Len(background_tasks[d]) : background_tasks[d][i].pc # "finished"
    THEN CHOOSE i \in 1..Len(background_tasks[d]) :
            /\ background_tasks[d][i].pc # "finished"
            /\ \A j \in 1..(i - 1) : background_tasks[d][j].pc = "finished"
    ELSE 0

\* generate_gemini_response up to its await: the provider is called.
TaskCall(d) ==
    /\ request[d].pc = "responded"
    /\ CurrentTask(d) # 0
    /\ LET i == CurrentTask(d)
       IN /\ background_tasks[d][i].pc = "queued"
          /\ background_tasks' =
                [background_tasks EXCEPT ![d][i].pc = "awaiting",
                                         ![d][i].calls = @ + 1]
    /\ UNCHANGED <<form_AI_DB, request>>
    /\ UNCHANGED <<viewer, call>>

\* TaskReturn with an exception of the provider call also replacing the
\* response of the request that added the task.
TaskReturnSurfaces(d) ==
    /\ CurrentTask(d) # 0
    /\ LET i == CurrentTask(d)
           task == background_tasks[d][i]
       IN /\ task.pc = "awaiting"
          /\ \E outcome \in ProviderOutcomes, store_ok \in BOOLEAN :
                /\ form_AI_DB' =
                      IF store_ok
                      THEN Update(form_AI_DB, task.submission_id,
                                  TerminalUpdate(task.submission_id, task.prompt_type,
                                                 outcome))
                      ELSE form_AI_DB
                /\ background_tasks' =
                      [background_tasks EXCEPT
                          ![d][i].pc = "finished",
                          ![d][i].updates = @ + UpdateAttempts,
                          ![d][i].update_failed = ~store_ok,
                          ![d][i].result =
                              IF outcome.kind = "exception" THEN "exception"
                              ELSE IF ResultText(outcome) # None THEN ResultText(outcome)
                              ELSE "empty"]
                /\ request' = IF outcome.kind = "exception"
                              THEN [request EXCEPT ![d].response = InternalServerError]
                              ELSE request
    /\ UNCHANGED <<viewer, call>>

\* TaskReturn with a call that brought no text made once more before the
\* error is written.
TaskReturnRetry(d) ==
    /\ CurrentTask(d) # 0
    /\ LET i == CurrentTask(d)
           task == background_tasks[d][i]
       IN /\ task.pc = "awaiting"
          /\ \E outcome \in ProviderOutcomes, store_ok \in BOOLEAN :
                IF (outcome.kind = "exception" \/ ResultText(outcome) = None)
                     /\ task.calls < 2
                THEN /\ background_tasks' =
                           [background_tasks EXCEPT ![d][i].pc = "queued"]
                     /\ UNCHANGED form_AI_DB
                ELSE /\ form_AI_DB' =
                           IF store_ok
                           THEN Update(form_AI_DB, task.submission_id,
                                       TerminalUpdate(task.submission_id,
                                                      task.prompt_type, outcome))
                           ELSE form_AI_DB
                     /\ background_tasks' =
                           [background_tasks EXCEPT
                               ![d][i].pc = "finished",
                               ![d][i].updates = @ + UpdateAttempts,
                               ![d][i].update_failed = ~store_ok,
                               ![d][i].result =
                                   IF outcome.kind = "exception" THEN "exception"
                                   ELSE IF ResultText(outcome) # None
                                   THEN ResultText(outcome)
                                   ELSE "empty"]
    /\ UNCHANGED request
    /\ UNCHANGED <<viewer, call>>

\* TaskReturn with a failure of the store update raised out of the task, so
\* that the tasks added after it are not run.
TaskReturnPropagates(d) ==
    /\ CurrentTask(d) # 0
    /\ LET i == CurrentTask(d)
           task == background_tasks[d][i]
       IN /\ task.pc = "awaiting"
          /\ \E outcome \in ProviderOutcomes, store_ok \in BOOLEAN :
                /\ form_AI_DB' =
                      IF store_ok
                      THEN Update(form_AI_DB, task.submission_id,
                                  TerminalUpdate(task.submission_id, task.prompt_type,
                                                 outcome))
                      ELSE form_AI_DB
                /\ background_tasks' =
                      [background_tasks EXCEPT ![d] =
                          [j \in 1..Len(background_tasks[d]) |->
                              IF j = i
                              THEN [task EXCEPT
                                       !.pc = "finished",
                                       !.updates = @ + UpdateAttempts,
                                       !.update_failed = ~store_ok,
                                       !.result =
                                           IF outcome.kind = "exception" THEN "exception"
                                           ELSE IF ResultText(outcome) # None
                                           THEN ResultText(outcome)
                                           ELSE "empty"]
                              ELSE IF j > i /\ ~store_ok
                              THEN [background_tasks[d][j] EXCEPT !.pc = "finished"]
                              ELSE background_tasks[d][j]]]
    /\ UNCHANGED request
    /\ UNCHANGED <<viewer, call>>

\* generate_gemini_response after its await: the call has come back and the
\* terminal write is attempted.
TaskReturn(d) ==
    /\ CurrentTask(d) # 0
    /\ LET i == CurrentTask(d)
           task == background_tasks[d][i]
       IN /\ task.pc = "awaiting"
          /\ \E outcome \in ProviderOutcomes, store_ok \in BOOLEAN :
                /\ form_AI_DB' =
                      IF store_ok
                      THEN Update(form_AI_DB, task.submission_id,
                                  TerminalUpdate(task.submission_id, task.prompt_type,
                                                 outcome))
                      ELSE form_AI_DB
                /\ background_tasks' =
                      [background_tasks EXCEPT
                          ![d][i].pc = "finished",
                          ![d][i].updates = @ + UpdateAttempts,
                          ![d][i].update_failed = ~store_ok,
                          ![d][i].result =
                              IF outcome.kind = "exception" THEN "exception"
                              ELSE IF ResultText(outcome) # None THEN ResultText(outcome)
                              ELSE "empty"]
    /\ UNCHANGED request
    /\ UNCHANGED <<viewer, call>>

\* ------------------------------------------------------------ specification

Next ==
    \E d \in Deliveries :
        \/ WebhookSelect(d)
        \/ WebhookInsert(d)
        \/ TaskCall(d)
        \/ TaskReturn(d)

Spec == Init /\ [][Next]_vars

\* Every store update of a task has been applied.
UpdatesApplied ==
    \A d \in Deliveries : \A i \in 1..Len(background_tasks[d]) :
        ~background_tasks[d][i].update_failed

\* TaskReturn with its store update applied.
TaskReturnApplied(d) == TaskReturn(d) /\ UpdatesApplied'

FairNext ==
    \E d \in Deliveries :
        \/ WebhookSelect(d)
        \/ WebhookInsert(d)
        \/ TaskCall(d)
        \/ TaskReturnApplied(d)

\* The program while the store accepts the tasks' updates: the event loop runs
\* every task that is ready, and every provider call comes back.
FairSpec ==
    /\ Init
    /\ [][FairNext]_vars
    /\ \A d \in Deliveries : WF_vars(TaskCall(d)) /\ WF_vars(TaskReturnApplied(d))

\* ---------------------------------------------------------- results viewers

\* `not data` in the client and consulting viewers: data is the response
\* object of execute(), which is never falsy, whatever rows it carries.
ResponseIsFalsy(data) == FALSE

\* What the client viewer (column result_client) and the consulting viewer
\* (column result_consulting) show for a submission id.
ViewerOutcome(db, submission_id, column) ==
    LET data == Select(db, submission_id)
        query == ViewerQuery(db, submission_id, column)
    IN IF ResponseIsFalsy(data)
       THEN [kind |-> "NotFound", text |-> None]
       ELSE IF query.status = STATUS_PROCESSING
       THEN [kind |-> "Processing", text |-> None]
       ELSE IF query.status = STATUS_SUCCESS
       THEN [kind |-> "Success", text |-> query.result_text]
       ELSE IF query.status = STATUS_ERROR
       THEN [kind |-> "Error", text |-> query.result_text]
       ELSE [kind |-> "UnknownStatus", text |-> query.status]

\* What the legacy viewer shows: it tests response.data, the list of rows,
\* and then calls data.get on it, which a list does not have.
LegacyViewerOutcome(db, submission_id) ==
    LET data == Select(db, submission_id)
    IN IF data = <<>>
       THEN [kind |-> "NotFound", text |-> None]
       ELSE [kind |-> "Exception", text |-> "AttributeError"]

\* Query with the rows it read removed from the table.
QueryConsumes(submission_id, column) ==
    /\ viewer' = [submission_id |-> submission_id, column |-> column]
    /\ form_AI_DB' = SelectSeq(form_AI_DB,
                               LAMBDA row : row.submission_id # submission_id)
    /\ UNCHANGED <<request, background_tasks, call>>

\* A results viewer is opened for submission_id: it selects the rows of the id
\* and renders what it found.
Query(submission_id, column) ==
    /\ viewer' = [submission_id |-> submission_id, column |-> column]
    /\ UNCHANGED <<form_AI_DB, request, background_tasks, call>>

ViewerNext ==
    \/ \E d \in Deliveries :
          \/ WebhookSelect(d)
          \/ WebhookInsert(d)
          \/ TaskCall(d)
          \/ TaskReturnApplied(d)
    \/ \E submission_id \in SubmissionIds,
          column \in {"result_client", "result_consulting"} :
          Query(submission_id, column)

\* The program while the store accepts the tasks' updates, together with the
\* results viewers.
ViewerSpec == Init /\ [][ViewerNext]_vars

\* ------------------------------------------------- functions on their own

\* os.getenv of a variable: unset, set to the empty string, or set.
EnvValues == {None, "", "key"}

\* The environments main.py can be loaded in; `connects` tells whether
\* create_client returns.
Envs == [GEMINI_API_KEY : EnvValues, DEEPSEEK_API_KEY : EnvValues,
         SUPABASE_URL : {None, "", "url"}, SUPABASE_KEY : {None, "key"},
         connects : BOOLEAN]

\* `not value` for the value of an environment variable.
NotSet(value) == value = None \/ value = ""

\* The module-level code of main.py: the provider sections only log a
\* missing key, the store section raises.
Startup(env) ==
    IF NotSet(env.SUPABASE_URL) THEN Raised("ValueError")
    ELSE IF ~env.connects THEN Raised("ConnectionError")
    ELSE Returned("serving")

CallFields == {FieldAI, FieldName, FieldSector, FieldLevel, FieldNoLabel,
               FieldIntList, FieldBanking}

\* payload.data.fields of the payloads the functions are called with.
FieldLists == UNION {[1..n -> CallFields] : n \in 0..MaxFields}

\* The values generate_prompt is given as mode.
Modes == {"CFO_Form", "consulting", "Unknown"}

Invocation(fn, env, fields, mode) ==
    [fn |-> fn, pc |-> "ready", env |-> env, fields |-> fields, mode |-> mode,
     result |-> NoResult, again |-> NoResult]

Invocations ==
    {Invocation("startup", env, <<>>, None) : env \in Envs}
      \cup {Invocation("detect_form_type", ServingEnv, fields, None) :
               fields \in FieldLists}
      \cup {Invocation("summarize_payload", ServingEnv, fields, None) :
               fields \in FieldLists}
      \cup {Invocation("generate_prompt", ServingEnv, fields, mode) :
               fields \in FieldLists, mode \in Modes}

FunctionInit ==
    /\ form_AI_DB = <<>>
    /\ request = [d \in Deliveries |->
                     [pc |-> "pending", submission_id |-> None, fields |-> <<>>,
                      response |-> NoResponse, after |-> {}, seen |-> None,
                      insert |-> "none"]]
    /\ background_tasks = [d \in Deliveries |-> <<>>]
    /\ viewer = NoQuery
    /\ call \in Invocations

\* The call once it has returned (or raised) `result`.
Returning(result) == [call EXCEPT !.pc = "returned", !.result = result]

RunStartup ==
    /\ call.fn = "startup"
    /\ call.pc = "ready"
    /\ call' = Returning(Startup(call.env))
    /\ UNCHANGED <<form_AI_DB, request, background_tasks, viewer>>

DetectFormTypeCall ==
    /\ call.fn = "detect_form_type"
    /\ call.pc = "ready"
    /\ call' = Returning(detect_form_type(call.fields))
    /\ UNCHANGED <<form_AI_DB, request, background_tasks, viewer>>

SummarizePayloadCall ==
    /\ call.fn = "summarize_payload"
    /\ call.pc = "ready"
    /\ call' = Returning(summarize_payload(call.fields))
    /\ UNCHANGED <<form_AI_DB, request, background_tasks, viewer>>

GeneratePromptCall ==
    /\ call.fn = "generate_prompt"
    /\ call.pc = "ready"
    /\ call' = Returning(Returned(generate_prompt(call.fields, call.mode)))
    /\ UNCHANGED <<form_AI_DB, request, background_tasks, viewer>>

\* Another submission is stored between two calls of generate_prompt.
OtherSubmission ==
    /\ call.fn = "generate_prompt"
    /\ call.pc = "returned"
    /\ form_AI_DB = <<>>
    /\ \E fields \in {PayloadCFO, PayloadEmpty} :
          form_AI_DB' = <<NewRow("sub-2", summarize_payload(fields).val,
                                 detect_form_type(fields).val)>>
    /\ UNCHANGED <<request, background_tasks, viewer, call>>

\* generate_prompt is called a second time with the same payload and mode.
GeneratePromptRecall ==
    /\ call.fn = "generate_prompt"
    /\ call.pc = "returned"
    /\ call' = [call EXCEPT !.pc = "recalled",
                            !.again = Returned(generate_prompt(call.fields, call.mode))]
    /\ UNCHANGED <<form_AI_DB, request, background_tasks, viewer>>

FunctionNext ==
    \/ RunStartup
    \/ DetectFormTypeCall
    \/ SummarizePayloadCall
    \/ GeneratePromptCall
    \/ OtherSubmission
    \/ GeneratePromptRecall

\* main.py's start-up and its pure functions, each called on its own with
\* inputs drawn from the input domain.
FunctionSpec == FunctionInit /\ [][FunctionNext]_vars

\* ----------------------------------------------------------------- claims

Started(d) == request[d].pc = "responded" /\ request[d].response = ProcessingStarted

\* The rows of a submission.
Rows(submission_id) == Select(form_AI_DB, submission_id)

\* The tasks of a submission, as <<delivery, index>>.
TasksOf(submission_id) ==
    {t \in Deliveries \X {1, 2} :
        /\ t[2] <= Len(background_tasks[t[1]])
        /\ background_tasks[t[1]][t[2]].submission_id = submission_id}

RECURSIVE SumCalls(_)
SumCalls(tasks) ==
    IF tasks = {} THEN 0
    ELSE LET t == CHOOSE x \in tasks : TRUE
         IN background_tasks[t[1]][t[2]].calls + SumCalls(tasks \ {t})

\* The number of provider invocations made for a submission.
ProviderCalls(submission_id) == SumCalls(TasksOf(submission_id))

AllFinished(submission_id) ==
    \A t \in TasksOf(submission_id) : background_tasks[t[1]][t[2]].pc = "finished"

\* e is a second call for the submission of d: it began after d had returned
\* Started, and has returned itself.
SecondCall(d, e) ==
    /\ d # e
    /\ Started(d)
    /\ request[e].pc = "responded"
    /\ d \in request[e].after

\* C1: when the handler is called twice, one call after the other, with the
\* same submission id (the first call being accepted), exactly one row exists
\* for the id afterwards, the second call inserts nothing and enqueues no
\* task, and the provider is invoked for one set of variants: two tasks, at
\* most two calls, exactly two once the tasks have run.
SequentialIdempotency ==
    \A d, e \in Deliveries :
        SecondCall(d, e) =>
            LET submission_id == request[d].submission_id
            IN /\ Len(Rows(submission_id)) = 1
               /\ request[e].insert = "none"
               /\ background_tasks[e] = <<>>
               /\ Cardinality(TasksOf(submission_id)) = 2
               /\ ProviderCalls(submission_id) <= 2
               /\ AllFinished(submission_id) => ProviderCalls(submission_id) = 2

\* A second call has returned and the tasks of the submission have all run.
SequentialIdempotencyWitness ==
    \E d, e \in Deliveries :
        /\ SecondCall(d, e)
        /\ AllFinished(request[d].submission_id)
        /\ ProviderCalls(request[d].submission_id) = 2

\* C2: whatever the interleaving of the deliveries of one submission id, at
\* most one of them returns Started, and a delivery that does not return
\* Started has enqueued no task.
ConcurrentDeduplication ==
    /\ \A d, e \in Deliveries :
          Started(d) /\ Started(e) /\ request[d].submission_id = request[e].submission_id
              => d = e
    /\ \A d \in Deliveries : ~Started(d) => background_tasks[d] = <<>>

\* Two deliveries of one id both looked the id up before either had inserted;
\* one has returned Started and the insert of the other was refused.
ConcurrentDeduplicationWitness ==
    \E d, e \in Deliveries :
        /\ d # e
        /\ Started(d)
        /\ request[d].after = {}
        /\ request[e].pc = "responded"
        /\ request[e].submission_id = request[d].submission_id
        /\ request[e].insert = "duplicate key"

\* C3 (as claimed): the status of a row only ever changes from processing to
\* success or from processing to error.
MonotonicStatus ==
    [][\A i \in 1..Len(form_AI_DB) :
          form_AI_DB'[i].status # form_AI_DB[i].status =>
              /\ form_AI_DB[i].status = STATUS_PROCESSING
              /\ form_AI_DB'[i].status \in {STATUS_SUCCESS, STATUS_ERROR}]_vars

\* A value a failed task writes in place of content.
IsDiagnostic(v) ==
    \/ v = GEMINI_ERROR_MARKER
    \/ \E e \in ProviderErrors : v = ErrorInterno(e)

\* Both tasks of d have run and both of their store updates were applied.
BothWritten(d) ==
    /\ Started(d)
    /\ Len(background_tasks[d]) = 2
    /\ \A i \in 1..2 : /\ background_tasks[d][i].pc = "finished"
                       /\ ~background_tasks[d][i].update_failed

\* C4 (as claimed): when one variant's task ends with text and the other's
\* with an error, the row holds the text in the successful variant's column
\* and the error sentinel in the failing variant's column only.
SlotIsolation ==
    \A d \in Deliveries :
        BothWritten(d) =>
            LET client == background_tasks[d][1]
                consulting == background_tasks[d][2]
                row == Rows(request[d].submission_id)[1]
            IN /\ (client.result \in ProviderTexts /\ consulting.result \notin ProviderTexts)
                     => /\ row.result_client = client.result
                        /\ IsDiagnostic(row.result_consulting)
               /\ (consulting.result \in ProviderTexts /\ client.result \notin ProviderTexts)
                     => /\ row.result_consulting = consulting.result
                        /\ IsDiagnostic(row.result_client)

\* C5 (as claimed): a row whose status is success has content in both result
\* columns.
SuccessHasEverySlot ==
    \A i \in 1..Len(form_AI_DB) :
        form_AI_DB[i].status = STATUS_SUCCESS =>
            /\ form_AI_DB[i].result_client # None
            /\ form_AI_DB[i].result_consulting # None

\* C6: whenever a viewer's query finds status error, the result column it
\* reads holds a diagnostic (the marker or an "Error interno" text), not None
\* and not text the provider generated.
ErrorCarriesDiagnostic ==
    \A submission_id \in SubmissionIds, column \in {"result_client", "result_consulting"} :
        LET query == ViewerQuery(form_AI_DB, submission_id, column)
        IN query.status = STATUS_ERROR =>
               /\ query.result_text # None
               /\ IsDiagnostic(query.result_text)
               /\ query.result_text \notin ProviderTexts

\* A row is in status error after one variant had written text into it.
ErrorCarriesDiagnosticWitness ==
    \E d \in Deliveries :
        /\ BothWritten(d)
        /\ background_tasks[d][1].result \in ProviderTexts
        /\ ViewerQuery(form_AI_DB, request[d].submission_id, "result_client").status
               = STATUS_ERROR

Terminal(submission_id) ==
    /\ Rows(submission_id) # <<>>
    /\ Rows(submission_id)[1].status \in {STATUS_SUCCESS, STATUS_ERROR}

\* C7: under fair scheduling of the tasks, with every provider call coming
\* back and every store update applied, the row of every delivery that
\* returned Started eventually has status success or error.
EventuallyTerminal ==
    \A d \in Deliveries : Started(d) ~> Terminal(request[d].submission_id)

\* A started submission whose tasks have run with every update applied.
EventuallyTerminalWitness ==
    \E d \in Deliveries : BothWritten(d) /\ Terminal(request[d].submission_id)

\* C8 (as claimed): a call whose lookup found the row returns "Already
\* processing" when the row's status is processing and "Already processed
\* with status: ..." otherwise.
DuplicateDeliveryOutcome ==
    \A d \in Deliveries :
        (request[d].pc = "responded" /\ request[d].seen # None) =>
            request[d].response =
                IF request[d].seen = STATUS_PROCESSING THEN AlreadyProcessing
                ELSE AlreadyProcessed(request[d].seen)

TerminalWriteRetried ==
    \A d \in Deliveries : \A i \in 1..Len(background_tasks[d]) :
        (background_tasks[d][i].pc = "finished" /\ background_tasks[d][i].update_failed)
            => background_tasks[d][i].updates >= 2

\* C11 (as claimed): neither task of a submission waits on the other: a task
\* that is still queued can start while the other task's provider call is
\* outstanding.
VariantIndependence ==
    \A d \in Deliveries :
        (/\ Len(background_tasks[d]) = 2
         /\ \E i, j \in 1..2 : /\ background_tasks[d][i].pc = "awaiting"
                               /\ background_tasks[d][j].pc = "queued")
            => ENABLED TaskCall(d)

\* The tasks of d have both run and each ended the way `results` allows; at
\* least one of their store updates was applied.
RanWith(d, results) ==
    /\ Started(d)
    /\ Len(background_tasks[d]) = 2
    /\ \A i \in 1..2 : /\ background_tasks[d][i].pc = "finished"
                       /\ background_tasks[d][i].result \in results
    /\ \E i \in 1..2 : ~background_tasks[d][i].update_failed

\* C12: when every provider call of a submission raised, after both tasks
\* have completed (the store having taken an update) a query of either viewer
\* finds status error and an "Error interno: ..." text, not the marker
\* ERROR_PROCESSING_GEMINI.
TransportFailureDiagnostic ==
    \A d \in Deliveries :
        RanWith(d, {"exception"}) =>
            \A column \in {"result_client", "result_consulting"} :
                LET query == ViewerQuery(form_AI_DB, request[d].submission_id, column)
                IN /\ query.status = STATUS_ERROR
                   /\ \E e \in ProviderErrors : query.result_text = ErrorInterno(e)
                   /\ query.result_text # GEMINI_ERROR_MARKER

\* Both provider calls of a submission raised and the row is in status error.
TransportFailureDiagnosticWitness ==
    \E d \in Deliveries :
        /\ RanWith(d, {"exception"})
        /\ background_tasks[d][1].calls = 1
        /\ background_tasks[d][2].calls = 1
        /\ Rows(request[d].submission_id)[1].status = STATUS_ERROR

\* The result column a task writes its content to.
OwnSlot(prompt_type) ==
    IF prompt_type = "consulting" THEN "result_consulting" ELSE "result_client"

\* Task i of d completes in this step with an applied store update, its call
\* having ended in `result`.
Completes(d, i, results) ==
    /\ i <= Len(background_tasks[d])
    /\ background_tasks[d][i].pc = "awaiting"
    /\ background_tasks'[d][i].pc = "finished"
    /\ background_tasks'[d][i].result \in results
    /\ ~background_tasks'[d][i].update_failed

\* C13: a task whose provider call came back without usable text leaves the
\* row in status error with ERROR_PROCESSING_GEMINI in its column, and that
\* value is none of the values the exception path writes.
EmptyResponseMarker ==
    [][\A d \in Deliveries, i \in 1..2 :
          Completes(d, i, {"empty"}) =>
              LET task == background_tasks[d][i]
                  row == Select(form_AI_DB', task.submission_id)[1]
              IN /\ row.status = STATUS_ERROR
                 /\ row[OwnSlot(task.prompt_type)] = GEMINI_ERROR_MARKER
                 /\ \A e \in ExceptionMessages :
                       row[OwnSlot(task.prompt_type)] # ErrorInterno(e)]_vars

\* A task ended on an empty response and the row holds the marker.
EmptyResponseMarkerWitness ==
    \E d \in Deliveries : \E i \in 1..Len(background_tasks[d]) :
        LET task == background_tasks[d][i]
        IN /\ task.pc = "finished"
           /\ task.result = "empty"
           /\ ~task.update_failed
           /\ Rows(task.submission_id)[1].status = STATUS_ERROR
           /\ Rows(task.submission_id)[1][OwnSlot(task.prompt_type)] = GEMINI_ERROR_MARKER

\* C14 (as claimed): a first delivery carrying the example's two labelled
\* scalar fields, the store taking the lookup and the insert, is answered
\* "Processing started".
HappyPathStarted ==
    [][\A d \in Deliveries :
          (/\ request[d].pc = "checked"
           /\ request[d].fields = PayloadTwoFields
           /\ request[d].after = {}
           /\ request'[d].pc = "responded"
           /\ request'[d].insert \in {"none", "ok"})
              => request'[d].response = ProcessingStarted]_vars

\* The lookup of d raises in this step: the handler returns without having
\* seen a row or reached the insert.
LookupFails(d) ==
    /\ request[d].pc = "pending"
    /\ request'[d].pc = "responded"
    /\ request'[d].seen = None

\* The insert of d is refused in this step because the store is unavailable.
InsertFails(d) ==
    /\ request[d].pc = "checked"
    /\ request'[d].pc = "responded"
    /\ request'[d].insert = "unavailable"

\* C15: a call whose lookup or insert fails because the store is unavailable
\* is answered with HTTP 500, adds no task and leaves the table as it was.
StoreFailureSurfaced ==
    [][\A d \in Deliveries :
          (LookupFails(d) \/ InsertFails(d)) =>
              /\ request'[d].response = InternalServerError
              /\ background_tasks'[d] = <<>>
              /\ form_AI_DB' = form_AI_DB]_vars

\* A call of a payload the handler accepts was answered 500 because its
\* insert found the store unavailable.
StoreFailureSurfacedWitness ==
    \E d \in Deliveries :
        /\ request[d].pc = "responded"
        /\ request[d].insert = "unavailable"
        /\ request[d].response = InternalServerError
        /\ background_tasks[d] = <<>>
        /\ Rows(request[d].submission_id) = <<>>

\* Task i of d has invoked the provider.
Invoked(d, i) == background_tasks[d][i].calls > 0

\* C16: the provider is invoked for a submission only after the call that
\* added the task has returned "Processing started", and no later step (no
\* outcome of a provider call in particular) changes a response once it has
\* been returned.
ResponseBeforeGeneration ==
    [][/\ \A d \in Deliveries : \A i \in 1..Len(background_tasks'[d]) :
             background_tasks'[d][i].calls > 0 =>
                 /\ request'[d].pc = "responded"
                 /\ request'[d].response = ProcessingStarted
                 /\ background_tasks[d] # <<>>
                 /\ request[d].response = ProcessingStarted
       /\ \A d \in Deliveries :
             request[d].pc = "responded" => request'[d].response = request[d].response]_vars

\* A provider call of a started submission raised and the response of the
\* call that started it is still "Processing started".
ResponseBeforeGenerationWitness ==
    \E d \in Deliveries : \E i \in 1..Len(background_tasks[d]) :
        /\ Invoked(d, i)
        /\ background_tasks[d][i].result = "exception"
        /\ Started(d)

\* C17: the store update of a task that received text sets the status to
\* success and the task's own result column to the text; every other column
\* of the row, the other variant's result among them, and every other row
\* keep the values they had before the write.
SuccessWriteFrame ==
    [][\A d \in Deliveries, i \in 1..2 :
          Completes(d, i, ProviderTexts) =>
              LET task == background_tasks[d][i]
                  own == OwnSlot(task.prompt_type)
              IN /\ Len(form_AI_DB') = Len(form_AI_DB)
                 /\ \A k \in 1..Len(form_AI_DB) :
                       IF form_AI_DB[k].submission_id = task.submission_id
                       THEN /\ form_AI_DB'[k].status = STATUS_SUCCESS
                            /\ form_AI_DB'[k][own] = background_tasks'[d][i].result
                            /\ \A col \in DOMAIN form_AI_DB[k] \ {"status", own} :
                                  form_AI_DB'[k][col] = form_AI_DB[k][col]
                       ELSE form_AI_DB'[k] = form_AI_DB[k]]_vars

\* The consulting task wrote its text after the client task had written its
\* own; the row holds both.
SuccessWriteFrameWitness ==
    \E d \in Deliveries :
        /\ BothWritten(d)
        /\ background_tasks[d][1].result \in ProviderTexts
        /\ background_tasks[d][2].result \in ProviderTexts
        /\ Rows(request[d].submission_id)[1].result_client = background_tasks[d][1].result
        /\ Rows(request[d].submission_id)[1].result_consulting = background_tasks[d][2].result

\* C18: a call that returned "Processing started" has added exactly two
\* tasks for its submission: first the one of the detected form type, which
\* writes result_client, then the consulting one, which writes
\* result_consulting. A call in any other state or with any other response
\* has added none.
TaskFanOut ==
    \A d \in Deliveries :
        IF Started(d)
        THEN /\ Len(background_tasks[d]) = 2
             /\ \A i \in 1..2 :
                   background_tasks[d][i].submission_id = request[d].submission_id
             /\ background_tasks[d][1].prompt_type = Rows(request[d].submission_id)[1].form_type
             /\ OwnSlot(background_tasks[d][1].prompt_type) = "result_client"
             /\ background_tasks[d][2].prompt_type = "consulting"
             /\ OwnSlot(background_tasks[d][2].prompt_type) = "result_consulting"
        ELSE background_tasks[d] = <<>>

\* One call returned "Processing started" for a form detected as CFO_Form and
\* another call was answered with an error.
TaskFanOutWitness ==
    \E d, e \in Deliveries :
        /\ Started(d)
        /\ background_tasks[d][1].prompt_type = "CFO_Form"
        /\ Len(background_tasks[d]) = 2
        /\ request[e].pc = "responded"
        /\ request[e].response = InternalServerError
        /\ background_tasks[e] = <<>>

\* C19: a task invokes the provider once: never before it starts, once when
\* it starts and never again. The step in which its call comes back, whether
\* with text, without text or with an exception, is the step of its store
\* update: the task ends there, and an applied update of a call that brought
\* no text leaves the row in status error.
NoProviderRetry ==
    [][\A d \in Deliveries, i \in 1..2 :
          i <= Len(background_tasks'[d]) =>
              LET after == background_tasks'[d][i]
              IN /\ after.calls = IF after.pc = "queued" THEN 0 ELSE 1
                 /\ (i <= Len(background_tasks[d])
                       /\ background_tasks[d][i].pc = "awaiting"
                       /\ after # background_tasks[d][i])
                      => /\ after.pc = "finished"
                         /\ after.updates = 1
                         /\ (after.result \notin ProviderTexts /\ ~after.update_failed)
                               => Select(form_AI_DB', after.submission_id)[1].status
                                      = STATUS_ERROR]_vars

\* One task ended on an exception and the other on an empty response, each
\* after one call.
NoProviderRetryWitness ==
    \E d \in Deliveries :
        /\ RanWith(d, {"exception", "empty"})
        /\ background_tasks[d][1].result # background_tasks[d][2].result
        /\ background_tasks[d][1].calls = 1
        /\ background_tasks[d][2].calls = 1

\* How a provider call can have ended, as a task records it.
TaskResults == ProviderTexts \cup {"empty", "exception"}

\* C20: once a row exists, it is changed only by the store update a task of
\* its submission issues when its provider call has come back (with text,
\* without text or with an exception); each task issues that update once,
\* and a submission has at most one task per result column. No step removes
\* a row, and no step of the handler changes one.
OneMutationPerVariant ==
    [][/\ Len(form_AI_DB') >= Len(form_AI_DB)
       /\ \A k \in 1..Len(form_AI_DB) :
             form_AI_DB'[k] # form_AI_DB[k] =>
                 \E d \in Deliveries, i \in 1..2 :
                     /\ Completes(d, i, TaskResults)
                     /\ background_tasks[d][i].submission_id = form_AI_DB[k].submission_id
                     /\ form_AI_DB'[k].submission_id = form_AI_DB[k].submission_id
       /\ \A d \in Deliveries, i \in 1..2 :
             i <= Len(background_tasks'[d]) =>
                 background_tasks'[d][i].updates =
                     IF background_tasks'[d][i].pc = "finished" THEN 1 ELSE 0
       /\ \A submission_id \in SubmissionIds, column \in {"result_client", "result_consulting"} :
             Cardinality({t \in TasksOf(submission_id) :
                 OwnSlot(background_tasks[t[1]][t[2]].prompt_type) = column})' <= 1]_vars

\* Both tasks of a submission have issued their update, a duplicate delivery
\* has been answered since, and the row is as the later task left it.
OneMutationPerVariantWitness ==
    \E d, e \in Deliveries :
        /\ BothWritten(d)
        /\ background_tasks[d][1].updates = 1
        /\ background_tasks[d][2].updates = 1
        /\ SecondCall(d, e)
        /\ request[e].seen \in {STATUS_SUCCESS, STATUS_ERROR}
        /\ Rows(request[d].submission_id)[1].status = request[e].seen

\* C21: a step of a results viewer, for an id with a row or without one,
\* leaves the table as it was: every step that opens a viewer, and every step
\* that is no step of the handler or of a task, keeps form_AI_DB.
QueryPurity ==
    [][(\/ viewer' # viewer
        \/ (request' = request /\ background_tasks' = background_tasks))
          => form_AI_DB' = form_AI_DB]_vars

\* A viewer was opened for a submission whose row is terminal while the other
\* id has no row; the row is still there.
QueryPurityWitness ==
    \E submission_id, absent \in SubmissionIds :
        /\ viewer.submission_id = submission_id
        /\ Terminal(submission_id)
        /\ Rows(absent) = <<>>
        /\ ViewerOutcome(form_AI_DB, submission_id, viewer.column).kind
              \in {"Success", "Error"}

\* C22 (as claimed): a viewer opened for a submission id that has no row
\* shows "No se encontraron resultados" (NotFound), not the processing,
\* success, error or unknown-status branch.
QueryAbsentNotFound ==
    (viewer # NoQuery /\ Rows(viewer.submission_id) = <<>>)
        => ViewerOutcome(form_AI_DB, viewer.submission_id, viewer.column).kind
               = "NotFound"

\* Neither provider key is set.
NoProviderCredential(env) ==
    NotSet(env.GEMINI_API_KEY) /\ NotSet(env.DEEPSEEK_API_KEY)

\* C23 (as claimed): start-up aborts with an error whenever the store
\* location is missing or no provider credential at all is configured.
FailFastStartup ==
    (/\ call.fn = "startup"
     /\ call.pc = "returned"
     /\ (NotSet(call.env.SUPABASE_URL) \/ NoProviderCredential(call.env)))
        => ~call.result.ok

\* C24 (as claimed): detect_form_type returns CFO_Form or Unknown for every
\* field list, of any length and with labels present or null; it never
\* raises.
TotalClassification ==
    (call.fn = "detect_form_type" /\ call.pc = "returned")
        => /\ call.result.ok
           /\ call.result.val \in {"CFO_Form", "Unknown"}

\* The tokens of a text.
Tokens(text) == {text[i] : i \in 1..Len(text)}

\* What a list element is to be shown as: the text of the option it names, or
\* the element itself when the field has no such option.
Resolved(field, v) == PyStr(IdToTextGet(field.options, v))

\* C25 (as claimed): the prompt shows every element of a list value that
\* names one of the field's options as that option's text, and every other
\* element as it is.
PromptResolvesOptions ==
    (call.fn = "generate_prompt" /\ call.pc = "returned")
        => \A k \in 1..Len(call.fields) :
              LET field == call.fields[k]
              IN field.value.t = "list" =>
                     \A i \in 1..Len(field.value.v) :
                         Resolved(field, field.value.v[i]) \in Tokens(call.result.val)

\* The positions at which a field line starts in a prompt, in ascending order.
LineStarts(prompt) ==
    SelectSeq([i \in 1..Len(prompt) |-> i], LAMBDA i : prompt[i] = "Pregunta: ")

\* Line k of a prompt: from its start up to the next line or the end.
Line(prompt, k) ==
    LET starts == LineStarts(prompt)
    IN SubSeq(prompt, starts[k],
              IF k < Len(starts) THEN starts[k + 1] - 1 ELSE Len(prompt))

\* C26: the prompt generate_prompt returns begins with the template of the
\* mode, which the first field line follows directly; it has one line per
\* field, line k rendering field k of the payload (its label, then its
\* value), and it ends with the last field's line.
PromptStructure ==
    (call.fn = "generate_prompt" /\ call.pc = "returned")
        => LET prompt == call.result.val
               preamble == PromptPreamble(call.mode)
               starts == LineStarts(prompt)
           IN /\ call.result.ok
              /\ SubSeq(prompt, 1, Len(preamble)) = preamble
              /\ "Pregunta: " \notin Tokens(preamble)
              /\ Len(starts) = Len(call.fields)
              /\ call.fields = <<>> => prompt = preamble
              /\ call.fields # <<>> => starts[1] = Len(preamble) + 1
              /\ \A k \in 1..Len(call.fields) :
                    Line(prompt, k) = PromptLine(call.fields[k])

\* A prompt was built from three different fields that are not in
\* alphabetical order of their labels.
PromptStructureWitness ==
    /\ call.fn = "generate_prompt"
    /\ call.pc = "returned"
    /\ call.mode = "CFO_Form"
    /\ call.fields = <<FieldBanking, FieldLevel, FieldAI>>
    /\ Len(LineStarts(call.result.val)) = 3

NullPlaceholders ==
    (call.fn = "generate_prompt" /\ call.pc = "returned")
        => /\ call.result.ok
           /\ \A k \in 1..Len(call.fields) :
                 LET line == Line(call.result.val, k)
                 IN /\ line[1] = "Pregunta: "
                    /\ line[3] = " - Respuesta: "
                    /\ call.fields[k].label = None => line[2] = "null"
                    /\ call.fields[k].value.t = "none"
                          => (Len(line) = 4 /\ line[4] = "null")

\* A prompt was built in consulting mode from a payload with a field whose
\* label and value are both null and a field whose label alone is null.
NullPlaceholdersWitness ==
    /\ call.fn = "generate_prompt"
    /\ call.pc = "returned"
    /\ call.mode = "consulting"
    /\ call.fields = <<FieldName, FieldNoLabel>>
    /\ Line(call.result.val, 1) = <<"Pregunta: ", "null", " - Respuesta: ", "null">>

\* C29 (as claimed): a row whose status is success holds no error sentinel
\* (the marker or an "Error interno" text) in either result column.
NoSentinelUnderSuccess ==
    \A i \in 1..Len(form_AI_DB) :
        form_AI_DB[i].status = STATUS_SUCCESS =>
            /\ ~IsDiagnostic(form_AI_DB[i].result_client)
            /\ ~IsDiagnostic(form_AI_DB[i].result_consulting)

\* The status a task's write sets for the way its call ended.
StatusOf(result) ==
    IF result \in ProviderTexts THEN STATUS_SUCCESS ELSE STATUS_ERROR

\* C30: once both tasks of a submission have completed with both store
\* updates applied, the status of the row is the one written by the task
\* that ran last (the consulting task, which runs after the client task),
\* whatever the earlier task wrote.
LastWriterWins ==
    \A d \in Deliveries :
        BothWritten(d) =>
            Rows(request[d].submission_id)[1].status
                = StatusOf(background_tasks[d][2].result)

\* The client task's call raised, the consulting task then wrote text, and the
\* row is in status success.
LastWriterWinsWitness ==
    \E d \in Deliveries :
        /\ BothWritten(d)
        /\ background_tasks[d][1].result = "exception"
        /\ background_tasks[d][2].result \in ProviderTexts
        /\ Rows(request[d].submission_id)[1].status = STATUS_SUCCESS

\* C31: a row in status processing has None in result_client and in
\* result_consulting; a row with a result in either column has status
\* success or error.
ProcessingHasNoResult ==
    \A i \in 1..Len(form_AI_DB) :
        /\ form_AI_DB[i].status = STATUS_PROCESSING
              => /\ form_AI_DB[i].result_client = None
                 /\ form_AI_DB[i].result_consulting = None
        /\ (form_AI_DB[i].result_client # None \/ form_AI_DB[i].result_consulting # None)
              => form_AI_DB[i].status \in {STATUS_SUCCESS, STATUS_ERROR}

\* One row is still in processing, its client task having come back with
\* text that the store refused, while the row of another submission holds a
\* result.
ProcessingHasNoResultWitness ==
    \E d, e \in Deliveries :
        /\ Started(d)
        /\ background_tasks[d][1].pc = "finished"
        /\ background_tasks[d][1].result \in ProviderTexts
        /\ background_tasks[d][1].update_failed
        /\ Rows(request[d].submission_id)[1].status = STATUS_PROCESSING
        /\ Started(e)
        /\ Rows(request[e].submission_id)[1].result_client \in ProviderTexts

\* C32: a task whose store update fails ends normally and leaves the table
\* exactly as it was; the task added after it is still run (it can start,
\* and it never ends without having called the provider); and when both
\* updates of a submission have failed its row is, and stays, in processing
\* with no result.
WriteFailureSwallowed ==
    /\ [](\A d \in Deliveries :
             Len(background_tasks[d]) = 2 =>
                 LET client == background_tasks[d][1]
                     consulting == background_tasks[d][2]
                     row == Rows(request[d].submission_id)[1]
                 IN /\ (client.pc = "finished" /\ client.update_failed
                          /\ consulting.pc = "queued") => ENABLED TaskCall(d)
                    /\ consulting.pc = "finished" => consulting.calls = 1
                    /\ (client.pc = "finished" /\ client.update_failed
                          /\ consulting.pc = "finished" /\ consulting.update_failed)
                         => /\ row.status = STATUS_PROCESSING
                            /\ row.result_client = None
                            /\ row.result_consulting = None)
    /\ [][\A d \in Deliveries, i \in 1..2 :
             (/\ i <= Len(background_tasks[d])
              /\ background_tasks[d][i].pc = "awaiting"
              /\ background_tasks'[d][i].update_failed)
                 => /\ background_tasks'[d][i].pc = "finished"
                    /\ form_AI_DB' = form_AI_DB]_vars

\* Both tasks of a submission have run, the store refused both updates, and
\* the row is still in processing.
WriteFailureSwallowedWitness ==
    \E d \in Deliveries :
        /\ Started(d)
        /\ \A i \in 1..2 : /\ background_tasks[d][i].pc = "finished"
                           /\ background_tasks[d][i].update_failed
                           /\ background_tasks[d][i].calls = 1
        /\ Rows(request[d].submission_id)[1].status = STATUS_PROCESSING

\* The call of d was answered 500 without having executed its insert and
\* without having found a row: its lookup failed, or detect_form_type or
\* summarize_payload raised.
FailedBeforeInsert(d) ==
    /\ request[d].pc = "responded"
    /\ request[d].response = InternalServerError
    /\ request[d].seen = None
    /\ request[d].insert = "none"

\* No call has inserted a row for submission_id.
NeverInserted(submission_id) ==
    \A f \in Deliveries :
        request[f].submission_id = submission_id => request[f].insert # "ok"

\* C33: the step in which a call fails before its insert leaves the table
\* as it was and adds no task; and a call that begins after such a failure,
\* with the same submission id and no insert of that id by any call, finds
\* no row: its lookup sees no status, it is not answered as a duplicate,
\* and unless its own lookup fails it goes on to detection and insert.
FailedAcceptLeavesNoTrace ==
    [][\A d \in Deliveries :
          /\ (request[d].pc # "responded" /\ FailedBeforeInsert(d)')
                => /\ form_AI_DB' = form_AI_DB
                   /\ background_tasks'[d] = <<>>
          /\ \A e \in Deliveries :
                (/\ FailedBeforeInsert(e)
                 /\ request[d].pc = "pending"
                 /\ request'[d].pc # "pending"
                 /\ request'[d].submission_id = request[e].submission_id
                 /\ NeverInserted(request[e].submission_id))
                    => /\ request'[d].seen = None
                       /\ request'[d].response \in {NoResponse, InternalServerError}
                       /\ request'[d].response = NoResponse
                             => request'[d].pc = "checked"]_vars

\* A call failed before its insert, and a later call with the same
\* submission id was accepted: its row is the only one of the id.
FailedAcceptLeavesNoTraceWitness ==
    \E d, e \in Deliveries :
        /\ FailedBeforeInsert(d)
        /\ d \in request[e].after
        /\ request[e].submission_id = request[d].submission_id
        /\ Started(e)
        /\ Len(Rows(request[e].submission_id)) = 1
        /\ Len(background_tasks[e]) = 2

\* The submission ids that have a row.
RowIds == {form_AI_DB[i].submission_id : i \in 1..Len(form_AI_DB)}

\* The submission ids for which a call has completed its insert.
InsertedIds ==
    {request[d].submission_id : d \in {e \in Deliveries : request[e].insert = "ok"}}

\* C34: tasks exist only for a submission that has a row, and the ids with a
\* row are the ids some call has inserted; in the step that adds the tasks
\* of a call the row of their id is there with status processing; and the
\* step in which a task writes its outcome adds no row.
InsertPrecedesGeneration ==
    /\ [](/\ \A d \in Deliveries :
                \A i \in 1..Len(background_tasks[d]) :
                    Len(Rows(background_tasks[d][i].submission_id)) = 1
          /\ RowIds = InsertedIds)
    /\ [][\A d \in Deliveries :
             /\ (background_tasks[d] = <<>> /\ background_tasks'[d] # <<>>)
                   => \A i \in 1..Len(background_tasks'[d]) :
                          LET rows == Select(form_AI_DB',
                                             background_tasks'[d][i].submission_id)
                          IN /\ Len(rows) = 1
                             /\ rows[1].status = STATUS_PROCESSING
                             /\ background_tasks'[d][i].pc = "queued"
             /\ (background_tasks[d] # <<>> /\ background_tasks'[d] # background_tasks[d])
                   => /\ Len(form_AI_DB') = Len(form_AI_DB)
                      /\ \A k \in 1..Len(form_AI_DB) :
                            form_AI_DB'[k].submission_id = form_AI_DB[k].submission_id]_vars

\* Two submissions have been inserted, the tasks of one have written their
\* outcome and the tasks of the other are still queued; one row each.
InsertPrecedesGenerationWitness ==
    \E d, e \in Deliveries :
        /\ Started(d) /\ Started(e)
        /\ request[d].submission_id # request[e].submission_id
        /\ \A i \in 1..2 : /\ background_tasks[d][i].pc = "finished"
                           /\ ~background_tasks[d][i].update_failed
        /\ background_tasks[e][1].pc = "queued"
        /\ Len(form_AI_DB) = 2

\* The step is one of the call or of a task of delivery d.
ActsFor(d) ==
    \/ request'[d] # request[d]
    \/ background_tasks'[d] # background_tasks[d]

\* C35: a step of the call or of a task of one submission leaves the rows of
\* every other submission id as they were.
CrossSubmissionIsolation ==
    [][\A d \in Deliveries :
          ActsFor(d) =>
              \A other \in SubmissionIds \ {request'[d].submission_id} :
                  Select(form_AI_DB', other) = Select(form_AI_DB, other)]_vars

\* Two submissions have a row; a task of one has written a result while the
\* row of the other is still as it was inserted.
CrossSubmissionIsolationWitness ==
    \E d, e \in Deliveries :
        /\ Started(d) /\ Started(e)
        /\ request[d].submission_id # request[e].submission_id
        /\ background_tasks[d][1].pc = "finished"
        /\ ~background_tasks[d][1].update_failed
        /\ Rows(request[d].submission_id)[1].status \in {STATUS_SUCCESS, STATUS_ERROR}
        /\ background_tasks[e][1].pc \in {"queued", "awaiting"}
        /\ Rows(request[e].submission_id)[1].status = STATUS_PROCESSING

\* C36: no step removes a row or changes the user_responses or the form_type
\* of a row that is already in the table.
InputFieldsWriteOnce ==
    [][/\ Len(form_AI_DB') >= Len(form_AI_DB)
       /\ \A i \in 1..Len(form_AI_DB) :
             /\ form_AI_DB'[i].submission_id = form_AI_DB[i].submission_id
             /\ form_AI_DB'[i].user_responses = form_AI_DB[i].user_responses
             /\ form_AI_DB'[i].form_type = form_AI_DB[i].form_type]_vars

\* Both tasks of a submission have written their outcome, one a result and
\* one an error, and a later call with the same id has been answered; the
\* row still carries a rendering and a form type.
InputFieldsWriteOnceWitness ==
    \E d, e \in Deliveries :
        /\ Started(d)
        /\ \A i \in 1..2 : /\ background_tasks[d][i].pc = "finished"
                           /\ ~background_tasks[d][i].update_failed
        /\ background_tasks[d][1].result \in ProviderTexts
        /\ background_tasks[d][2].result \in {"empty", "exception"}
        /\ d \in request[e].after
        /\ request[e].pc = "responded"
        /\ request[e].submission_id = request[d].submission_id
        /\ request[e].seen \in {STATUS_SUCCESS, STATUS_ERROR}
        /\ Rows(request[d].submission_id)[1].user_responses # None
        /\ Rows(request[d].submission_id)[1].form_type # None

====
